---- MODULE Spec2Model ----
(***************************************************************************)
(* The HTTP handlers of handler.go (Add, AuthURL, Browse, Delete, Publish,  *)
(* Read, Validate) over the provider client gd.                             *)
(*                                                                          *)
(* A text (cookie value, path, error text, url, body) is a sequence of      *)
(* atoms; an atom is one character, or a literal of the source kept whole.  *)
(* Each slot of Slots holds one in-flight request with the position of its  *)
(* handler goroutine; the provider's answers are chosen by the environment. *)
(***************************************************************************)
EXTENDS Integers, Sequences, FiniteSets, TLC

VARIABLES req, pc, w, calls, res, stream

vars == <<req, pc, w, calls, res, stream>>

----------------------------------------------------------------------------
(* Bounds *)

NSlots == 2      \* requests that can be in flight at once
MaxText == 2     \* atoms in a text the provider returns
MaxList == 2     \* file names in a listing the provider returns

Slots == 1..NSlots

----------------------------------------------------------------------------
(* Texts *)

Alphabet == {"a", "\"", "&"}

RECURSIVE TextsOfLen(_)
TextsOfLen(n) ==
    IF n = 0 THEN {<<>>}
    ELSE {Append(t, c) : t \in TextsOfLen(n - 1), c \in Alphabet}

Texts == UNION {TextsOfLen(n) : n \in 0..MaxText}

EmptyText == <<>>

----------------------------------------------------------------------------
(* net/http response writer, as the handlers use it *)

StatusOK == 200
StatusBadRequest == 400
StatusUnauthorized == 401
StatusNotFound == 404

NoHeader == "unset"

NewWriter ==
    [wroteHeader |-> FALSE, status |-> 0, contentType |-> NoHeader,
     sentContentType |-> NoHeader, body |-> <<>>]

\* w.Header().Set("Content-Type", v): changes the header map only; what was
\* sent with the status line stays as it was.
HeaderSet(rw, v) == [rw EXCEPT !.contentType = v]

\* w.WriteHeader(code): only the first call sends a status.
WriteHeader(rw, code) ==
    IF rw.wroteHeader THEN rw
    ELSE [rw EXCEPT !.wroteHeader = TRUE, !.status = code,
                    !.sentContentType = rw.contentType]

\* w.Write(b): sends 200 first when no status was sent yet.
Write(rw, b) ==
    LET rw1 == WriteHeader(rw, StatusOK)
    IN  [rw1 EXCEPT !.body = @ \o b]

\* http.Error(w, msg, code): plain-text content type, the status, then the
\* message and a newline.
Error(rw, msg, code) ==
    Write(WriteHeader(HeaderSet(rw, "text/plain; charset=utf-8"), code),
          msg \o <<"\n">>)

\* The server after the handler returned: a handler that wrote nothing gets
\* an empty 200.
FinishRequest(rw) == WriteHeader(rw, StatusOK)

----------------------------------------------------------------------------
(* Request accessors *)

RECURSIVE FirstMatch(_, _, _)
FirstMatch(pairs, k, p) ==
    IF p > Len(pairs) THEN 0
    ELSE IF pairs[p].key = k THEN p
    ELSE FirstMatch(pairs, k, p + 1)

\* Cookie with the name ignored: any cookie passes the gate.
CookieAnyName(r, name) ==
    IF Len(r.cookies) = 0 THEN [err |-> TRUE, Value |-> EmptyText]
    ELSE [err |-> FALSE, Value |-> r.cookies[1].value]

\* r.Cookie(name): the first cookie of that name, or ErrNoCookie.
Cookie(r, name) ==
    LET p == FirstMatch(r.cookies, name, 1)
    IN  IF p = 0 THEN [err |-> TRUE, Value |-> EmptyText]
        ELSE [err |-> FALSE, Value |-> r.cookies[p].value]

\* ps.ByName(name): the first parameter of that name, or "".
ByName(r, name) ==
    LET p == FirstMatch(r.ps, name, 1)
    IN  IF p = 0 THEN EmptyText ELSE r.ps[p].value

\* r.FormValue(key): the first value of that key, or "".
FormValue(r, key) ==
    LET p == FirstMatch(r.form, key, 1)
    IN  IF p = 0 THEN EmptyText ELSE r.form[p].value

----------------------------------------------------------------------------
(* encoding/json, for the four response structs *)

JString(t) == [kind |-> "string", str |-> t, items |-> <<>>]
JNull == [kind |-> "null", str |-> <<>>, items |-> <<>>]
JArray(ts) == [kind |-> "array", str |-> <<>>, items |-> ts]

\* A Go []string: the nil slice encodes as null, any other as an array.
NilList == [isNil |-> TRUE, items |-> <<>>]
List(ts) == [isNil |-> FALSE, items |-> ts]
JList(l) == IF l.isNil THEN JNull ELSE JArray(l.items)

\* EscapeAtom with no escaping at all.
EscapeNone(c) == <<c>>

\* The encoder's escapes: quote and backslash by a backslash, and (HTML
\* escaping is on) &, < and > by \u00XX.
EscapeAtom(c) ==
    CASE c = "\"" -> <<"\\", "\"">>
      [] c = "\\" -> <<"\\", "\\">>
      [] c = "&"  -> <<"\\", "u0026">>
      [] c = "<"  -> <<"\\", "u003c">>
      [] c = ">"  -> <<"\\", "u003e">>
      [] OTHER    -> <<c>>

RECURSIVE Escape(_)
Escape(t) == IF t = <<>> THEN <<>> ELSE EscapeAtom(Head(t)) \o Escape(Tail(t))

MarshalString(t) == <<"\"">> \o Escape(t) \o <<"\"">>

RECURSIVE MarshalItems(_)
MarshalItems(ts) ==
    IF ts = <<>> THEN <<>>
    ELSE IF Len(ts) = 1 THEN MarshalString(ts[1])
    ELSE MarshalString(Head(ts)) \o <<",">> \o MarshalItems(Tail(ts))

MarshalValue(v) ==
    CASE v.kind = "string" -> MarshalString(v.str)
      [] v.kind = "null"   -> <<"null">>
      [] v.kind = "array"  -> <<"[">> \o MarshalItems(v.items) \o <<"]">>

RECURSIVE MarshalFields(_)
MarshalFields(fs) ==
    IF fs = <<>> THEN <<>>
    ELSE LET f == MarshalString(<<Head(fs).key>>) \o <<":">> \o MarshalValue(Head(fs).val)
         IN  IF Len(fs) = 1 THEN f ELSE f \o <<",">> \o MarshalFields(Tail(fs))

\* json.Marshal of a struct: its fields in declaration order under their tags.
Marshal(fs) == <<"{">> \o MarshalFields(fs) \o <<"}">>

AuthURLJSON(url) == <<[key |-> "url", val |-> JString(url)]>>
BrowseJSON(list) == <<[key |-> "file_list", val |-> JList(list)]>>
PublishJSON(url) == <<[key |-> "url", val |-> JString(url)]>>
\* ValidateJSON with the token left out of the struct.
ValidateJSONNoToken(token, expiry) ==
    <<[key |-> "access_token", val |-> JString(<<>>)],
      [key |-> "expiry", val |-> JString(<<expiry>>)]>>

\* omitempty never drops a struct, so expiry is always there.
ValidateJSON(token, expiry) ==
    <<[key |-> "access_token", val |-> JString(token)],
      [key |-> "expiry", val |-> JString(<<expiry>>)]>>

----------------------------------------------------------------------------
(* A JSON reader, to state what a client finds in a body *)

Fail == [ok |-> FALSE, val |-> JNull, next |-> 0]

Unescape(c) ==
    CASE c = "u0026" -> "&"
      [] c = "u003c" -> "<"
      [] c = "u003e" -> ">"
      [] OTHER -> c

RECURSIVE ReadStringBody(_, _, _)
ReadStringBody(s, p, acc) ==
    IF p > Len(s) THEN Fail
    ELSE IF s[p] = "\"" THEN [ok |-> TRUE, val |-> JString(acc), next |-> p + 1]
    ELSE IF s[p] = "\\"
         THEN IF p + 1 > Len(s) \/ s[p + 1] \notin {"\"", "\\", "u0026", "u003c", "u003e"}
              THEN Fail
              ELSE ReadStringBody(s, p + 2, Append(acc, Unescape(s[p + 1])))
    ELSE ReadStringBody(s, p + 1, Append(acc, s[p]))

ReadString(s, p) ==
    IF p > Len(s) \/ s[p] # "\"" THEN Fail ELSE ReadStringBody(s, p + 1, <<>>)

RECURSIVE ReadItems(_, _, _)
ReadItems(s, p, acc) ==
    LET e == ReadString(s, p)
    IN  IF ~e.ok \/ e.next > Len(s) THEN Fail
        ELSE IF s[e.next] = "]"
             THEN [ok |-> TRUE, val |-> JArray(Append(acc, e.val.str)), next |-> e.next + 1]
        ELSE IF s[e.next] = ","
             THEN ReadItems(s, e.next + 1, Append(acc, e.val.str))
        ELSE Fail

ReadValue(s, p) ==
    IF p > Len(s) THEN Fail
    ELSE IF s[p] = "null" THEN [ok |-> TRUE, val |-> JNull, next |-> p + 1]
    ELSE IF s[p] = "\"" THEN ReadString(s, p)
    ELSE IF s[p] = "["
         THEN IF p + 1 <= Len(s) /\ s[p + 1] = "]"
              THEN [ok |-> TRUE, val |-> JArray(<<>>), next |-> p + 2]
              ELSE ReadItems(s, p + 1, <<>>)
    ELSE Fail

NoObject == [ok |-> FALSE, fields |-> <<>>]

RECURSIVE ReadFields(_, _, _)
ReadFields(s, p, acc) ==
    LET k == ReadString(s, p)
    IN  IF ~k.ok \/ k.next > Len(s) \/ s[k.next] # ":" \/ Len(k.val.str) # 1
        THEN NoObject
        ELSE LET v == ReadValue(s, k.next + 1)
                 fs == Append(acc, [key |-> k.val.str[1], val |-> v.val])
             IN  IF ~v.ok \/ v.next > Len(s) THEN NoObject
                 ELSE IF s[v.next] = "}"
                      THEN IF v.next = Len(s) THEN [ok |-> TRUE, fields |-> fs]
                           ELSE NoObject
                 ELSE IF s[v.next] = ","
                      THEN ReadFields(s, v.next + 1, fs)
                 ELSE NoObject

\* The body read as one JSON object and nothing else.
Unmarshal(s) ==
    IF Len(s) < 2 \/ s[1] # "{" THEN NoObject
    ELSE IF s[2] = "}" THEN (IF Len(s) = 2 THEN [ok |-> TRUE, fields |-> <<>>] ELSE NoObject)
    ELSE ReadFields(s, 2, <<>>)

HasField(o, k) == o.ok /\ \E n \in 1..Len(o.fields) : o.fields[n].key = k

Field(o, k) == o.fields[CHOOSE n \in 1..Len(o.fields) : o.fields[n].key = k].val

----------------------------------------------------------------------------
(* The provider client gd: what a call can hand back *)

NoErr == [isNil |-> TRUE, text |-> <<>>]
Err(t) == [isNil |-> FALSE, text |-> t]

\* A *http.Response: nil, or one whose Body yields data.
NilResponse == [isNil |-> TRUE, data |-> <<>>]
Response(d) == [isNil |-> FALSE, data |-> d]

ZeroTime == "0001-01-01T00:00:00Z"
SomeTime == "2016-01-01T00:00:00Z"

NoResult ==
    [err |-> NoErr, text |-> <<>>, list |-> NilList, response |-> NilResponse,
     expiry |-> ZeroTime]

Errors == {NoErr} \cup {Err(t) : t \in Texts \cup {<<"not found">>}}

FileNames == {<<"a">>, <<"\"", "&">>}

RECURSIVE ListsOfLen(_)
ListsOfLen(n) ==
    IF n = 0 THEN {<<>>}
    ELSE {Append(l, f) : l \in ListsOfLen(n - 1), f \in FileNames}

Lists == {NilList} \cup {List(l) : l \in UNION {ListsOfLen(n) : n \in 0..MaxList}}

Responses == {NilResponse} \cup {Response(d) : d \in Texts}

\* Every combination of results the signature of the method allows.
Signature(method) ==
    CASE method = "Add"      -> {[NoResult EXCEPT !.err = e] : e \in Errors}
      [] method = "Delete"   -> {[NoResult EXCEPT !.err = e] : e \in Errors}
      [] method = "AuthURL"  -> {[NoResult EXCEPT !.text = t] : t \in Texts}
      [] method = "Browse"   ->
            {[NoResult EXCEPT !.list = l, !.err = e] : l \in Lists, e \in Errors}
      [] method = "Publish"  ->
            {[NoResult EXCEPT !.text = t, !.err = e] : t \in Texts, e \in Errors}
      [] method = "Read"     ->
            {[NoResult EXCEPT !.response = r, !.err = e] : r \in Responses, e \in Errors}
      [] method = "Validate" ->
            {[NoResult EXCEPT !.text = t, !.expiry = x, !.err = e] :
                t \in Texts, x \in {ZeroTime, SomeTime}, e \in Errors}

\* What the collaborator contract adds to the signature: a failed Browse,
\* Publish or Validate hands back the zero value next to its error, and an
\* accepted code yields a token.  Read is left free: a *http.Response can
\* come with an error.
Contract(method, r) ==
    /\ method = "Browse" /\ ~r.err.isNil => r.list = NilList
    /\ method = "Publish" /\ ~r.err.isNil => r.text = <<>>
    /\ method = "Validate" /\ ~r.err.isNil => r.text = <<>> /\ r.expiry = ZeroTime
    /\ method = "Validate" /\ r.err.isNil => r.text # <<>>

Results(method) == {r \in Signature(method) : Contract(method, r)}

\* The few results the concurrent specification draws from.
SmallResults(method) ==
    LET errs == {NoErr, Err(<<"not found">>)}
        S == CASE method \in {"Add", "Delete"} -> {[NoResult EXCEPT !.err = e] : e \in errs}
               [] method = "AuthURL" -> {[NoResult EXCEPT !.text = <<"a">>]}
               [] method = "Browse" ->
                     {[NoResult EXCEPT !.list = l, !.err = e] :
                         l \in {NilList, List(<<<<"a">>>>)}, e \in errs}
               [] method = "Publish" ->
                     {[NoResult EXCEPT !.text = t, !.err = e] : t \in {<<>>, <<"a">>}, e \in errs}
               [] method = "Read" ->
                     {[NoResult EXCEPT !.response = r, !.err = e] :
                         r \in {NilResponse, Response(<<"a">>)}, e \in errs}
               [] method = "Validate" ->
                     {[NoResult EXCEPT !.text = t, !.err = e] : t \in {<<>>, <<"a">>}, e \in errs}
    IN  {r \in S : Contract(method, r)}

----------------------------------------------------------------------------
(* Requests *)

Pair(k, v) == [key |-> k, value |-> v]

Tok1 == <<"t1">>
Tok2 == <<"t2">>

CookieJars ==
    { <<>>,
      <<Pair("token", Tok1)>>,
      <<Pair("token", <<>>)>>,
      <<Pair("session", Tok2)>>,
      <<Pair("session", Tok2), Pair("token", Tok1)>>,
      <<Pair("token", Tok2), Pair("token", Tok1)>> }

PathParams == { <<>>, <<Pair("filepath", <<"/", "a">>)>>, <<Pair("filepath", <<"/", "&">>)>> }

ProviderParams ==
    { <<>>, <<Pair("provider", <<"google">>)>>, <<Pair("provider", <<"Google">>)>>,
      <<Pair("provider", <<"dropbox">>)>> }

Forms ==
    { <<>>,
      <<Pair("state", <<"google">>)>>,
      <<Pair("state", <<"google">>), Pair("code", <<"c1">>)>>,
      <<Pair("code", <<"c1">>), Pair("state", <<"dropbox">>)>>,
      <<Pair("code", <<"c1">>)>> }

Bodies == { <<>>, <<"b1">> }

CookieGated == {"Add", "Browse", "Delete", "Publish", "Read"}
Handlers == CookieGated \cup {"AuthURL", "Validate"}

NoRequest == [h |-> "none", cookies |-> <<>>, ps |-> <<>>, form |-> <<>>, body |-> <<>>]

\* The requests a client can send to each route.
Requests ==
    {[NoRequest EXCEPT !.h = "Add", !.cookies = c, !.ps = p, !.body = b] :
        c \in CookieJars, p \in PathParams, b \in Bodies}
    \cup {[NoRequest EXCEPT !.h = h, !.cookies = c, !.ps = p] :
        h \in CookieGated \ {"Add"}, c \in CookieJars, p \in PathParams}
    \cup {[NoRequest EXCEPT !.h = "AuthURL", !.cookies = c, !.ps = p] :
        c \in {<<>>, <<Pair("token", Tok1)>>}, p \in ProviderParams}
    \cup {[NoRequest EXCEPT !.h = "Validate", !.form = f] : f \in Forms}

SmallRequests ==
    {rq \in Requests :
        /\ rq.cookies \in {<<>>, <<Pair("token", Tok1)>>}
        /\ rq.h \in CookieGated => rq.ps = <<Pair("filepath", <<"/", "a">>)>>
        /\ rq.h = "Add" => rq.body = <<"b1">>
        /\ rq.h = "AuthURL" => rq.cookies = <<>> /\ rq.ps = <<Pair("provider", <<"google">>)>>
        /\ rq.h = "Validate" =>
              rq.form = <<Pair("state", <<"google">>), Pair("code", <<"c1">>)>>}

----------------------------------------------------------------------------
(* State *)

NoStream == [exists |-> FALSE, data |-> <<>>, pos |-> 0, copied |-> FALSE, closes |-> 0]

Init ==
    /\ req = [i \in Slots |-> NoRequest]
    /\ pc = [i \in Slots |-> "idle"]
    /\ w = [i \in Slots |-> NewWriter]
    /\ calls = [i \in Slots |-> <<>>]
    /\ res = [i \in Slots |-> NoResult]
    /\ stream = [i \in Slots |-> NoStream]

\* Request kept in one place shared by all invocations.
RequestShared(i) == req[1]

\* The r, ps and w a handler invocation was given.
Request(i) == req[i]
Writer(i) == w[i]

\* The server hands a request to a handler goroutine with a fresh writer.
Serve(i, rq) ==
    /\ pc[i] = "idle"
    /\ req' = [req EXCEPT ![i] = rq]
    /\ pc' = [pc EXCEPT ![i] = "entry"]
    /\ w' = [w EXCEPT ![i] = NewWriter]
    /\ calls' = [calls EXCEPT ![i] = <<>>]
    /\ res' = [res EXCEPT ![i] = NoResult]
    /\ stream' = [stream EXCEPT ![i] = NoStream]

\* The handler returns: the server completes the response.
Return(i, rw) ==
    /\ w' = [w EXCEPT ![i] = FinishRequest(rw)]
    /\ pc' = [pc EXCEPT ![i] = "done"]

\* gd.<method>(args...) is entered; the goroutine waits for its result.
Call(i, method, args) ==
    /\ calls' = [calls EXCEPT ![i] = Append(@, [method |-> method, args |-> args])]
    /\ pc' = [pc EXCEPT ![i] = "wait"]
    /\ UNCHANGED w

At(i, h, where) == pc[i] = where /\ Request(i).h = h

----------------------------------------------------------------------------
(* Add *)

\* Add with the credential and the path confused.
AddSwapped(i) ==
    /\ pc[i] = "entry" /\ req[i].h = "Add"
    /\ LET cookie == Cookie(req[i], "token")
       IN  IF cookie.err
           THEN /\ Return(i, Error(w[i], <<"User not authenticated">>, StatusUnauthorized))
                /\ UNCHANGED calls
           ELSE Call(i, "Add", <<ByName(req[i], "filepath"), req[i].body, cookie.Value>>)
    /\ UNCHANGED <<req, res, stream>>

Add(i) ==
    /\ At(i, "Add", "entry")
    /\ LET cookie == Cookie(Request(i), "token")
       IN  IF cookie.err
           THEN /\ Return(i, Error(Writer(i), <<"User not authenticated">>, StatusUnauthorized))
                /\ UNCHANGED calls
           ELSE Call(i, "Add",
                     <<cookie.Value, Request(i).body, ByName(Request(i), "filepath")>>)
    /\ UNCHANGED <<req, res, stream>>

AddResult(i, r) ==
    /\ At(i, "Add", "wait")
    /\ res' = [res EXCEPT ![i] = r]
    /\ IF ~r.err.isNil
       THEN Return(i, Error(Writer(i), r.err.text, StatusBadRequest))
       ELSE Return(i, Writer(i))
    /\ UNCHANGED <<req, calls, stream>>

----------------------------------------------------------------------------
(* AuthURL *)

AuthURL(i) ==
    /\ At(i, "AuthURL", "entry")
    /\ IF ByName(Request(i), "provider") = <<"google">>
       THEN Call(i, "AuthURL", <<>>)
       ELSE /\ Return(i, Error(Writer(i), <<"Provider not found">>, StatusNotFound))
            /\ UNCHANGED calls
    /\ UNCHANGED <<req, res, stream>>

AuthURLResult(i, r) ==
    /\ At(i, "AuthURL", "wait")
    /\ res' = [res EXCEPT ![i] = r]
    /\ LET j == Marshal(AuthURLJSON(r.text))
       IN  Return(i, Write(HeaderSet(Writer(i), "application/json"), j))
    /\ UNCHANGED <<req, calls, stream>>

----------------------------------------------------------------------------
(* Browse *)

Browse(i) ==
    /\ At(i, "Browse", "entry")
    /\ LET cookie == Cookie(Request(i), "token")
       IN  IF cookie.err
           THEN /\ Return(i, Error(Writer(i), <<"authenticated">>, StatusUnauthorized))
                /\ UNCHANGED calls
           ELSE Call(i, "Browse", <<cookie.Value, ByName(Request(i), "filepath")>>)
    /\ UNCHANGED <<req, res, stream>>

\* BrowseResult with a return after the error.
BrowseResultStops(i, r) ==
    /\ pc[i] = "wait" /\ req[i].h = "Browse"
    /\ res' = [res EXCEPT ![i] = r]
    /\ IF ~r.err.isNil
       THEN Return(i, Error(w[i], r.err.text, StatusBadRequest))
       ELSE Return(i, Write(HeaderSet(w[i], "application/json"), Marshal(BrowseJSON(r.list))))
    /\ UNCHANGED <<req, calls, stream>>

\* No return after the error: the JSON is written either way.
BrowseResult(i, r) ==
    /\ At(i, "Browse", "wait")
    /\ res' = [res EXCEPT ![i] = r]
    /\ LET w1 == IF ~r.err.isNil
                 THEN Error(Writer(i), r.err.text, StatusBadRequest)
                 ELSE Writer(i)
           j == Marshal(BrowseJSON(r.list))
       IN  Return(i, Write(HeaderSet(w1, "application/json"), j))
    /\ UNCHANGED <<req, calls, stream>>

----------------------------------------------------------------------------
(* Delete *)

Delete(i) ==
    /\ At(i, "Delete", "entry")
    /\ LET cookie == Cookie(Request(i), "token")
       IN  IF cookie.err
           THEN /\ Return(i, Error(Writer(i), <<"User not authenticated">>, StatusUnauthorized))
                /\ UNCHANGED calls
           ELSE Call(i, "Delete", <<cookie.Value, ByName(Request(i), "filepath")>>)
    /\ UNCHANGED <<req, res, stream>>

DeleteResult(i, r) ==
    /\ At(i, "Delete", "wait")
    /\ res' = [res EXCEPT ![i] = r]
    /\ IF ~r.err.isNil
       THEN Return(i, Error(Writer(i), r.err.text, StatusBadRequest))
       ELSE Return(i, Writer(i))
    /\ UNCHANGED <<req, calls, stream>>

----------------------------------------------------------------------------
(* Publish *)

Publish(i) ==
    /\ At(i, "Publish", "entry")
    /\ LET cookie == Cookie(Request(i), "token")
       IN  IF cookie.err
           THEN /\ Return(i, Error(Writer(i), <<"User not authenticated">>, StatusUnauthorized))
                /\ UNCHANGED calls
           ELSE Call(i, "Publish", <<cookie.Value, ByName(Request(i), "filepath")>>)
    /\ UNCHANGED <<req, res, stream>>

\* No return after the error: the JSON is written either way.
PublishResult(i, r) ==
    /\ At(i, "Publish", "wait")
    /\ res' = [res EXCEPT ![i] = r]
    /\ LET w1 == IF ~r.err.isNil
                 THEN Error(Writer(i), r.err.text, StatusBadRequest)
                 ELSE Writer(i)
           j == Marshal(PublishJSON(r.text))
       IN  Return(i, Write(HeaderSet(w1, "application/json"), j))
    /\ UNCHANGED <<req, calls, stream>>

----------------------------------------------------------------------------
(* Read *)

Read(i) ==
    /\ At(i, "Read", "entry")
    /\ LET cookie == Cookie(Request(i), "token")
       IN  IF cookie.err
           THEN /\ Return(i, Error(Writer(i), <<"User not authenticated">>, StatusUnauthorized))
                /\ UNCHANGED calls
           ELSE Call(i, "Read", <<cookie.Value, ByName(Request(i), "filepath")>>)
    /\ UNCHANGED <<req, res, stream>>

\* ReadResult without the nil check on the response.
ReadResultNoNilCheck(i, r) ==
    /\ pc[i] = "wait" /\ req[i].h = "Read"
    /\ res' = [res EXCEPT ![i] = r]
    /\ stream' = [stream EXCEPT ![i] =
                    IF r.response.isNil THEN NoStream
                    ELSE [NoStream EXCEPT !.exists = TRUE, !.data = r.response.data]]
    /\ IF ~r.err.isNil
       THEN Return(i, Error(w[i], r.err.text, StatusBadRequest))
       ELSE /\ pc' = [pc EXCEPT ![i] = "copy"]
            /\ UNCHANGED w
    /\ UNCHANGED <<req, calls>>

\* The provider's answer opens the stream it hands back, if any; the handler
\* returns on an error and on a nil response, and copies otherwise.
ReadResult(i, r) ==
    /\ At(i, "Read", "wait")
    /\ res' = [res EXCEPT ![i] = r]
    /\ stream' = [stream EXCEPT ![i] =
                    IF r.response.isNil THEN NoStream
                    ELSE [NoStream EXCEPT !.exists = TRUE, !.data = r.response.data]]
    /\ IF ~r.err.isNil
       THEN Return(i, Error(Writer(i), r.err.text, StatusBadRequest))
       ELSE IF r.response.isNil
            THEN Return(i, Writer(i))
            ELSE /\ pc' = [pc EXCEPT ![i] = "copy"]
                 /\ UNCHANGED w
    /\ UNCHANGED <<req, calls>>

\* io.Copy(w, response.Body): one chunk per step until the stream ends.
ReadCopy(i) ==
    /\ At(i, "Read", "copy")
    /\ LET st == stream[i]
       IN  IF st.pos < Len(st.data)
           THEN /\ w' = [w EXCEPT ![i] = Write(Writer(i), <<st.data[st.pos + 1]>>)]
                /\ stream' = [stream EXCEPT ![i].pos = st.pos + 1]
                /\ UNCHANGED pc
           ELSE /\ stream' = [stream EXCEPT ![i].copied = TRUE]
                /\ pc' = [pc EXCEPT ![i] = "close"]
                /\ UNCHANGED w
    /\ UNCHANGED <<req, calls, res>>

\* response.Body.Close(), then the handler returns.
ReadClose(i) ==
    /\ At(i, "Read", "close")
    /\ stream' = [stream EXCEPT ![i].closes = @ + 1]
    /\ Return(i, Writer(i))
    /\ UNCHANGED <<req, calls, res>>

----------------------------------------------------------------------------
(* Validate *)

\* Validate with the switch on state left out.
ValidateAnyState(i) ==
    /\ pc[i] = "entry" /\ req[i].h = "Validate"
    /\ Call(i, "Validate", <<FormValue(req[i], "code")>>)
    /\ UNCHANGED <<req, res, stream>>

Validate(i) ==
    /\ At(i, "Validate", "entry")
    /\ LET state == FormValue(Request(i), "state")
       IN  IF state = <<"google">>
           THEN Call(i, "Validate", <<FormValue(Request(i), "code")>>)
           ELSE /\ Return(i, Error(Writer(i), <<"Invalid state token">>, StatusBadRequest))
                /\ UNCHANGED calls
    /\ UNCHANGED <<req, res, stream>>

\* ValidateResult passing the provider's error text on.
ValidateResultVerbatim(i, r) ==
    /\ pc[i] = "wait" /\ req[i].h = "Validate"
    /\ res' = [res EXCEPT ![i] = r]
    /\ IF ~r.err.isNil
       THEN Return(i, Error(w[i], r.err.text, StatusBadRequest))
       ELSE Return(i, Write(HeaderSet(w[i], "application/json"),
                            Marshal(ValidateJSON(r.text, r.expiry))))
    /\ UNCHANGED <<req, calls, stream>>

\* The error text of the provider is dropped for a fixed message.
ValidateResult(i, r) ==
    /\ At(i, "Validate", "wait")
    /\ res' = [res EXCEPT ![i] = r]
    /\ IF ~r.err.isNil
       THEN Return(i, Error(Writer(i), <<"Auth Code invalid">>, StatusBadRequest))
       ELSE LET j == Marshal(ValidateJSON(r.text, r.expiry))
            IN  Return(i, Write(HeaderSet(Writer(i), "application/json"), j))
    /\ UNCHANGED <<req, calls, stream>>

----------------------------------------------------------------------------
(* The response has been sent and the request's objects are dropped; the   *)
(* slot is free for the next request.                                      *)

Retire(i) ==
    /\ pc[i] = "done"
    /\ pc' = [pc EXCEPT ![i] = "idle"]
    /\ req' = [req EXCEPT ![i] = NoRequest]
    /\ w' = [w EXCEPT ![i] = NewWriter]
    /\ calls' = [calls EXCEPT ![i] = <<>>]
    /\ res' = [res EXCEPT ![i] = NoResult]
    /\ stream' = [stream EXCEPT ![i] = NoStream]

----------------------------------------------------------------------------
(* Specifications *)

Idle == \A i \in Slots : pc[i] = "idle"

Step(i, small) ==
    LET R(m) == IF ~At(i, m, "wait") THEN {}
                ELSE IF small THEN SmallResults(m) ELSE Results(m)
    IN  \/ Add(i)
        \/ \E r \in R("Add") : AddResult(i, r)
        \/ AuthURL(i)
        \/ \E r \in R("AuthURL") : AuthURLResult(i, r)
        \/ Browse(i)
        \/ \E r \in R("Browse") : BrowseResult(i, r)
        \/ Delete(i)
        \/ \E r \in R("Delete") : DeleteResult(i, r)
        \/ Publish(i)
        \/ \E r \in R("Publish") : PublishResult(i, r)
        \/ Read(i)
        \/ \E r \in R("Read") : ReadResult(i, r)
        \/ ReadCopy(i)
        \/ ReadClose(i)
        \/ Validate(i)
        \/ \E r \in R("Validate") : ValidateResult(i, r)
        \/ Retire(i)

\* One request at a time, over every request and every provider result.
Next ==
    \E i \in Slots :
        \/ \E rq \in Requests : Idle /\ Serve(i, rq)
        \/ Step(i, FALSE)

Spec == Init /\ [][Next]_vars

\* Requests served concurrently, each slot its own goroutine.
NextConc ==
    \E i \in Slots :
        \/ \E rq \in SmallRequests : Serve(i, rq)
        \/ Step(i, TRUE)

SpecConc == Init /\ [][NextConc]_vars

----------------------------------------------------------------------------
(* Vocabulary of the properties *)

Done(i) == pc[i] = "done"
Active(i) == pc[i] # "idle"
Called(i) == calls[i] # <<>>
Failed(i) == Called(i) /\ pc[i] # "wait" /\ ~res[i].err.isNil
Succeeded(i) == Called(i) /\ pc[i] # "wait" /\ res[i].err.isNil

TokenCookies(rq) == {n \in 1..Len(rq.cookies) : rq.cookies[n].key = "token"}
HasToken(rq) == TokenCookies(rq) # {}
TokenValue(rq) ==
    rq.cookies[CHOOSE n \in TokenCookies(rq) : \A m \in TokenCookies(rq) : n <= m].value

Param(rq, k) ==
    IF \E n \in 1..Len(rq.ps) : rq.ps[n].key = k
    THEN rq.ps[CHOOSE n \in 1..Len(rq.ps) :
                  rq.ps[n].key = k /\ \A m \in 1..(n - 1) : rq.ps[m].key # k].value
    ELSE <<>>

FormOf(rq, k) ==
    IF \E n \in 1..Len(rq.form) : rq.form[n].key = k
    THEN rq.form[CHOOSE n \in 1..Len(rq.form) :
                    rq.form[n].key = k /\ \A m \in 1..(n - 1) : rq.form[m].key # k].value
    ELSE <<>>

ErrorLine(t) == t \o <<"\n">>

\* The part of a body after its first n atoms.
After(b, n) == SubSeq(b, n + 1, Len(b))
StartsWith(b, t) == Len(b) >= Len(t) /\ SubSeq(b, 1, Len(t)) = t

----------------------------------------------------------------------------
\* C1: a request without a token cookie to Add, Browse, Delete, Publish or
\* Read never reaches the provider, and is answered 401 with a body that is
\* not empty.
C1_NoCookieUnauthorized ==
    \A i \in Slots :
        Active(i) /\ req[i].h \in CookieGated /\ ~HasToken(req[i]) =>
            /\ calls[i] = <<>>
            /\ Done(i) => w[i].status = StatusUnauthorized /\ w[i].body # <<>>

\* A request that carries a cookie, but none named token, has been answered.
C1_Witness ==
    \E i \in Slots :
        /\ Done(i) /\ req[i].h = "Browse" /\ req[i].cookies # <<>> /\ ~HasToken(req[i])
        /\ w[i].status = StatusUnauthorized

\* C2: Validate with any state other than "google", a missing one included,
\* never reaches the provider and is answered 400, whatever the code is.
C2_BadStateRejected ==
    \A i \in Slots :
        Active(i) /\ req[i].h = "Validate" /\ FormOf(req[i], "state") # <<"google">> =>
            /\ calls[i] = <<>>
            /\ Done(i) => w[i].status = StatusBadRequest

C2_Witness ==
    \E i \in Slots :
        /\ Done(i) /\ req[i].h = "Validate"
        /\ FormOf(req[i], "state") = <<"dropbox">> /\ FormOf(req[i], "code") # <<>>
        /\ w[i].status = StatusBadRequest

\* C3 as claimed: in every handler that called the provider and got an
\* error e, the response is 400 and its body is e as http.Error writes it.
C3_AllErrorsVerbatim ==
    \A i \in Slots :
        Done(i) /\ Failed(i) =>
            /\ w[i].status = StatusBadRequest
            /\ w[i].body = ErrorLine(res[i].err.text)

\* C3 as amended: the response is 400 in all six handlers; the body is e as
\* http.Error writes it in Add, Delete and Read, begins with it and goes on
\* with the JSON object in Browse and Publish, and is the fixed text
\* "Auth Code invalid" in Validate, whatever e is.
C3_ErrorBodies ==
    \A i \in Slots :
        Done(i) /\ Failed(i) =>
            /\ w[i].status = StatusBadRequest
            /\ req[i].h \in {"Add", "Delete", "Read"} =>
                  w[i].body = ErrorLine(res[i].err.text)
            /\ req[i].h \in {"Browse", "Publish"} =>
                  /\ StartsWith(w[i].body, ErrorLine(res[i].err.text))
                  /\ Unmarshal(After(w[i].body, Len(res[i].err.text) + 1)).ok
            /\ req[i].h = "Validate" => w[i].body = ErrorLine(<<"Auth Code invalid">>)

\* Validate has answered a provider error whose text is not the fixed one.
C3_Witness ==
    \E i \in Slots :
        /\ Done(i) /\ Failed(i) /\ req[i].h = "Validate"
        /\ res[i].err.text = <<"not found">>
        /\ w[i].body = ErrorLine(<<"Auth Code invalid">>)

\* C4: AuthURL with a provider other than "google" is answered 404 without
\* a call to the provider; with "google" the provider's AuthURL is called
\* once and the answer is 200 with a JSON object whose url is the string it
\* returned; a cookie plays no part.
C4_AuthURL ==
    \A i \in Slots :
        Active(i) /\ req[i].h = "AuthURL" =>
            IF Param(req[i], "provider") = <<"google">>
            THEN /\ pc[i] # "entry" => calls[i] = <<[method |-> "AuthURL", args |-> <<>>]>>
                 /\ Done(i) =>
                       /\ w[i].status = StatusOK
                       /\ HasField(Unmarshal(w[i].body), "url")
                       /\ Field(Unmarshal(w[i].body), "url") = JString(res[i].text)
            ELSE /\ calls[i] = <<>>
                 /\ Done(i) => w[i].status = StatusNotFound

\* A cookie-less request got a url that needs escaping in JSON.
C4_Witness ==
    \E i \in Slots :
        /\ Done(i) /\ req[i].h = "AuthURL" /\ req[i].cookies = <<>>
        /\ res[i].text = <<"\"", "&">>
        /\ w[i].status = StatusOK

\* C5: Add with a token cookie calls the provider's Add once, with the
\* cookie's value, the request body and the filepath parameter as they came;
\* when that call returns no error the answer is 200 with an empty body.
C5_AddPassThrough ==
    \A i \in Slots :
        Active(i) /\ req[i].h = "Add" /\ HasToken(req[i]) /\ pc[i] # "entry" =>
            /\ calls[i] = <<[method |-> "Add",
                             args |-> <<TokenValue(req[i]), req[i].body,
                                        Param(req[i], "filepath")>>]>>
            /\ Done(i) /\ res[i].err.isNil =>
                  w[i].status = StatusOK /\ w[i].body = <<>>

C5_Witness ==
    \E i \in Slots :
        /\ Done(i) /\ req[i].h = "Add" /\ Succeeded(i)
        /\ req[i].body # <<>> /\ Param(req[i], "filepath") # <<>>
        /\ TokenValue(req[i]) # <<>> /\ w[i].status = StatusOK

\* C6: Read with a token cookie: when the provider returns no error the
\* answer is 200 and its body is what the returned stream yields, empty for
\* a nil response, which is never read or closed; when the provider returns
\* an error the answer is the 400 alone, with no byte of a stream in it.
C6_ReadBody ==
    \A i \in Slots :
        /\ Active(i) /\ ~stream[i].exists =>
              stream[i].pos = 0 /\ ~stream[i].copied /\ stream[i].closes = 0
        /\ Done(i) /\ req[i].h = "Read" /\ Succeeded(i) =>
              /\ w[i].status = StatusOK
              /\ w[i].body = IF res[i].response.isNil THEN <<>> ELSE res[i].response.data
        /\ Done(i) /\ req[i].h = "Read" /\ Failed(i) =>
              /\ w[i].status = StatusBadRequest
              /\ w[i].body = ErrorLine(res[i].err.text)
              /\ stream[i].pos = 0

\* A stream of MaxText chunks has been copied out.
C6_Witness ==
    \E i \in Slots :
        /\ Done(i) /\ req[i].h = "Read" /\ Succeeded(i)
        /\ ~res[i].response.isNil /\ Len(res[i].response.data) = MaxText
        /\ w[i].body = res[i].response.data

\* A nil response has been answered.
C6_WitnessNil ==
    \E i \in Slots :
        /\ Done(i) /\ req[i].h = "Read" /\ Succeeded(i) /\ res[i].response.isNil
        /\ w[i].status = StatusOK

C8_StreamClosed ==
    \A i \in Slots :
        /\ stream[i].closes >= 1 => stream[i].copied
        /\ Done(i) /\ req[i].h = "Read" /\ stream[i].exists => stream[i].closes = 1

----------------------------------------------------------------------------
(* A handler run alone, from its request and the provider's answer *)

SoloCalls(rq) ==
    CASE rq.h \in CookieGated \ {"Add"} ->
            IF HasToken(rq)
            THEN <<[method |-> rq.h, args |-> <<TokenValue(rq), Param(rq, "filepath")>>]>>
            ELSE <<>>
      [] rq.h = "Add" ->
            IF HasToken(rq)
            THEN <<[method |-> "Add",
                    args |-> <<TokenValue(rq), rq.body, Param(rq, "filepath")>>]>>
            ELSE <<>>
      [] rq.h = "AuthURL" ->
            IF Param(rq, "provider") = <<"google">>
            THEN <<[method |-> "AuthURL", args |-> <<>>]>> ELSE <<>>
      [] rq.h = "Validate" ->
            IF FormOf(rq, "state") = <<"google">>
            THEN <<[method |-> "Validate", args |-> <<FormOf(rq, "code")>>]>> ELSE <<>>

Plain == "text/plain; charset=utf-8"

Answer(status, ct, sent, body) ==
    [wroteHeader |-> TRUE, status |-> status, contentType |-> ct,
     sentContentType |-> sent, body |-> body]

SoloResponse(rq, r) ==
    LET gate == IF rq.h = "Browse" THEN <<"authenticated">>
                ELSE <<"User not authenticated">>
        bad(t) == Answer(StatusBadRequest, Plain, Plain, ErrorLine(t))
        json(fs) == IF r.err.isNil
                    THEN Answer(StatusOK, "application/json", "application/json", Marshal(fs))
                    ELSE Answer(StatusBadRequest, "application/json", Plain,
                                ErrorLine(r.err.text) \o Marshal(fs))
    IN  IF SoloCalls(rq) = <<>>
        THEN CASE rq.h \in CookieGated -> Answer(StatusUnauthorized, Plain, Plain, ErrorLine(gate))
               [] rq.h = "AuthURL" ->
                     Answer(StatusNotFound, Plain, Plain, ErrorLine(<<"Provider not found">>))
               [] rq.h = "Validate" -> bad(<<"Invalid state token">>)
        ELSE CASE rq.h \in {"Add", "Delete"} ->
                     IF r.err.isNil THEN Answer(StatusOK, NoHeader, NoHeader, <<>>)
                     ELSE bad(r.err.text)
               [] rq.h = "Read" ->
                     IF ~r.err.isNil THEN bad(r.err.text)
                     ELSE Answer(StatusOK, NoHeader, NoHeader,
                                 IF r.response.isNil THEN <<>> ELSE r.response.data)
               [] rq.h = "Browse" -> json(BrowseJSON(r.list))
               [] rq.h = "Publish" -> json(PublishJSON(r.text))
               [] rq.h = "AuthURL" -> json(AuthURLJSON(r.text))
               [] rq.h = "Validate" ->
                     IF r.err.isNil THEN json(ValidateJSON(r.text, r.expiry))
                     ELSE bad(<<"Auth Code invalid">>)

\* C10: with requests running concurrently, each request makes the provider
\* call (method and arguments, one at most) that its own cookie, parameters
\* and body decide, and gets the response (status and body) that these and
\* the provider's answer to that call decide, as if it had run alone.
C10_Independent ==
    \A i \in Slots :
        /\ Len(calls[i]) <= 1
        /\ pc[i] \in {"idle", "entry"} => calls[i] = <<>>
        /\ pc[i] \in {"wait", "copy", "close"} =>
              calls[i] = SoloCalls(req[i]) /\ calls[i] # <<>>
        /\ Done(i) =>
              /\ calls[i] = SoloCalls(req[i])
              /\ w[i].status = SoloResponse(req[i], res[i]).status
              /\ w[i].body = SoloResponse(req[i], res[i]).body

\* Two requests of different handlers are over at once, one of them a Read
\* that copied a stream while the other waited for the provider.
C10_Witness ==
    \E i, j \in Slots :
        /\ i # j /\ Done(i) /\ Done(j)
        /\ req[i].h = "Read" /\ w[i].body = <<"a">>
        /\ req[j].h = "Browse" /\ Failed(j)

====
